---- MODULE Spec2Model ----
(***************************************************************************)
(* Model of the codecrawl job client (CodecrawlApp.generateLLMsTxt and the *)
(* two requests it is built from) and of the output token counting engine  *)
(* (calculateOutputMetrics with its worker pool).                          *)
(*                                                                         *)
(* Strings built by template literals are modelled as sequences of string  *)
(* pieces, so that "the message contains E" is a sub-sequence test.        *)
(***************************************************************************)
EXTENDS Integers, Sequences, FiniteSets, TLC

VARIABLES
    pc,          \* position of generateLLMsTxt: idle, awaitSubmit, awaitPoll, sleeping, done
    log,         \* requests sent and delays taken, in order
    submitResp,  \* the response the POST received
    submitted,   \* outcome of asyncGenerateLLMsText for that response
    pollResps,   \* the responses the GETs received, in order
    polled,      \* outcome of the last checkGenerateLLMsTextStatus call
    jobId,       \* the local jobId of generateLLMsTxt
    outcome,     \* how generateLLMsTxt ended
    mpc,         \* position of calculateOutputMetrics: idle, awaitTasks, done
    content,     \* length of the content handed to calculateOutputMetrics
    encoding,    \* its encoding argument
    path,        \* its path argument (NoPath when omitted)
    poolInits,   \* arguments of the initTaskRunner calls made so far
    tasks,       \* tasks handed to runTask (the pool's run), in submission order
    drained,     \* number of leading tasks whose promise is settled
    settled,     \* task index -> the settlement of its promise
    mresult,     \* how calculateOutputMetrics ended
    badAt,       \* where in content a text sits that the tokenizer fails on
    splitLen,    \* length of the content the splitting loop last ran on
    chunks,      \* the chunks that loop pushed
    tokenCounter, \* per worker: the singleton (NoCounter, or the encoding it is bound to)
    created,     \* per worker: how many TokenCounters it has constructed
    freed,       \* per worker: the instances free() was called on, in order
    exited,      \* per worker: its exit event has fired
    runs,        \* the task function's runs so far, over all workers
    cpc,         \* where calculateMetrics stands
    processedFiles, \* its file records, each a path and the length of a content
    output,      \* the length of its output string
    tokenEncoding, \* config.tokenCount.encoding
    progress,    \* the messages given to progressCallback
    fileMetricsP,  \* the promise of calculateAllFileMetrics
    totalTokensP,  \* the promise of calculateOutputMetrics
    report,      \* how calculateMetrics ended
    config,      \* the config given to new CodecrawlApp
    constructed, \* how the constructor ended
    client,      \* the fields of the CodecrawlApp instance, once constructed
    requests     \* the requests the instance has sent, in order

clientVars == <<pc, log, submitResp, submitted, pollResps, polled, jobId, outcome>>
metricsVars == <<mpc, content, encoding, path, poolInits, tasks, drained, settled, mresult, badAt>>
splitVars == <<splitLen, chunks>>
workerVars == <<tokenCounter, created, freed, exited, runs>>
calcVars ==
    <<cpc, processedFiles, output, tokenEncoding, progress, fileMetricsP, totalTokensP, report>>
appVars == <<config, constructed, client, requests>>
vars == <<clientVars, metricsVars, splitVars, workerVars, calcVars, appVars>>

(***************************************************************************)
(* Bounds of the model.                                                    *)
(***************************************************************************)
\* number of status requests one run may issue
MaxPolls == 3
\* how many places after the oldest pending task a task may settle
MaxLag == 1
\* the short content lengths tried
MaxSmall == 2
\* how far above the parallel threshold the lengths tried for splitting go
MaxExcess == 100
\* the number of runs of the worker's task function followed
MaxRuns == 3
\* the longest list of file records given to calculateMetrics
MaxFiles == 2
\* the number of requests followed on one CodecrawlApp instance
MaxRequests == 2

(***************************************************************************)
(* HTTP responses.                                                         *)
(***************************************************************************)
\* a field that is absent from a body (an absent or empty string field)
None == <<>>

\* the statuses a response can carry; NoResponse marks a request that got
\* no response at all (a network error: AxiosError with response undefined)
NoResponse == 0
HttpStatuses == {200, 201, 400, 404, 500}

ServerErrors == {<<"rate limited">>}
JobIds == {<<"job-123">>, <<"job-456">>}
JobStatuses == {<<"processing">>, <<"completed">>, <<"failed">>, <<"queued">>}

\* a response body: success is the truthiness of data.success, the other
\* fields are None when the key is absent
Bodies ==
    [success : BOOLEAN,
     id      : JobIds \cup {None},
     status  : JobStatuses \cup {None},
     error   : ServerErrors \cup {None},
     details : BOOLEAN]

EmptyBody == [success |-> FALSE, id |-> None, status |-> None, error |-> None, details |-> FALSE]

\* bodies the submit endpoint may answer with ({success, id} or an error body)
SubmitBodies == {b \in Bodies : b.status = None}
\* bodies the status endpoint may answer with
StatusBodies == {b \in Bodies : b.id = None}

Response(s, d) == [status |-> s, data |-> d]
SubmitResponses ==
    {Response(s, d) : s \in HttpStatuses, d \in SubmitBodies} \cup {Response(NoResponse, EmptyBody)}
StatusResponses ==
    {Response(s, d) : s \in HttpStatuses, d \in StatusBodies} \cup {Response(NoResponse, EmptyBody)}

\* axios resolves for a 2xx status and rejects with an AxiosError otherwise
AxiosResolves(r) == r.status >= 200 /\ r.status < 300

(***************************************************************************)
(* Outcomes of a call: a returned value or a thrown error.                 *)
(***************************************************************************)
NoValue == EmptyBody

\* the statusCode of an error object that has none (undefined)
NoStatusCode == -1

Return(v) ==
    [kind |-> "return", value |-> v, class |-> "", statusCode |-> NoStatusCode,
     message |-> <<>>, details |-> FALSE,
     hasResponse |-> FALSE, response |-> Response(NoResponse, EmptyBody)]

\* new CodecrawlError(message, statusCode, details): it has no response property
CodecrawlError(msg, code, det) ==
    [kind |-> "throw", value |-> NoValue, class |-> "CodecrawlError", statusCode |-> code,
     message |-> msg, details |-> det,
     hasResponse |-> FALSE, response |-> Response(NoResponse, EmptyBody)]

\* the AxiosError of a rejected request; its response is undefined on a network error
AxiosError(r) ==
    [kind |-> "throw", value |-> NoValue, class |-> "AxiosError", statusCode |-> NoStatusCode,
     message |-> <<"Request failed">>, details |-> FALSE,
     hasResponse |-> (r.status # NoResponse), response |-> r]

\* the TypeError of reading a property of undefined
TypeError ==
    [kind |-> "throw", value |-> NoValue, class |-> "TypeError", statusCode |-> NoStatusCode,
     message |-> <<"Cannot read properties of undefined">>, details |-> FALSE,
     hasResponse |-> FALSE, response |-> Response(NoResponse, EmptyBody)]

NoOutcome == Return(NoValue)

\* s occurs in message m
Contains(m, s) ==
    \E i \in 1..(Len(m) - Len(s) + 1) : SubSeq(m, i, i + Len(s) - 1) = s

\* the ErrorResponse {success: false, error: msg}
ErrorResponse(msg) == [EmptyBody EXCEPT !.error = msg]

(***************************************************************************)
(* CodecrawlApp: the requests.                                             *)
(***************************************************************************)
\* axios.post as postRequest uses it: the response, or an AxiosError
postRequest(r) == IF AxiosResolves(r) THEN Return(r) ELSE AxiosError(r)

\* getRequest: an AxiosError is caught and its response is returned in its
\* place (undefined when the request got no response)
getRequest(r) == Return(r)

HandledStatuses == {400, 402, 408, 409, 500}

\* handleError(response, action): always throws
handleError(response, action) ==
    IF response.status \in HandledStatuses
    THEN LET errorMessage ==
                 IF response.data.error # None THEN response.data.error
                 ELSE <<"unknown error occured">>
             details ==
                 IF response.data.details THEN <<"- ", "{details}">> ELSE <<>>
         IN  CodecrawlError(
                 <<"Failed to ">> \o action \o <<". Status code: ", ToString(response.status),
                   ". Error: ">> \o errorMessage \o details,
                 response.status, response.data.details)
    ELSE CodecrawlError(
             <<"Unexpected error occurred while ">> \o action \o
                 <<". Status code: ", ToString(response.status), ".">>,
             response.status, FALSE)

\* the catch block of asyncGenerateLLMsText
asyncGenerateLLMsTextCatch(error) ==
    IF error.hasResponse /\ error.response.data.error # None
    THEN CodecrawlError(
             <<"Failed to start LLMs.txt generation. Status code: ",
               ToString(error.response.status), ". Error: ">> \o error.response.data.error,
             error.response.status, FALSE)
    ELSE IF error.hasResponse
    THEN CodecrawlError(
             <<"Unexpected error occurred while starting LLMs.txt generation. Status code: ",
               ToString(error.response.status), ".">>,
             error.response.status, FALSE)
    \* error.response is undefined: reading error.response.status throws
    ELSE TypeError

\* asyncGenerateLLMsText, given the response r the POST receives
asyncGenerateLLMsText(r) ==
    LET posted == postRequest(r) IN
    IF posted.kind = "throw" THEN asyncGenerateLLMsTextCatch(posted)
    ELSE IF posted.value.status = 200 THEN Return(posted.value.data)
    ELSE asyncGenerateLLMsTextCatch(handleError(posted.value, <<"start LLMs.txt generation">>))

\* the catch block of checkGenerateLLMsTextStatus
checkGenerateLLMsTextStatusCatch(error) ==
    IF error.hasResponse /\ error.response.data.error # None
    THEN CodecrawlError(
             <<"Request failed with status code ", ToString(error.response.status),
               ". Error: ">> \o error.response.data.error \o
                 (IF error.response.data.details THEN <<" - ", "{details}">> ELSE <<>>),
             error.response.status, FALSE)
    ELSE CodecrawlError(error.message, 500, FALSE)

\* checkGenerateLLMsTextStatus without its 404 branch: a 404 is handled like
\* any other error status
checkGenerateLLMsTextStatus_No404(r) ==
    LET response == getRequest(r).value IN
    IF response.status = NoResponse THEN checkGenerateLLMsTextStatusCatch(TypeError)
    ELSE IF response.status = 200 THEN Return(response.data)
    ELSE checkGenerateLLMsTextStatusCatch(
             handleError(response, <<"check LLMs.txt generation status">>))

\* checkGenerateLLMsTextStatus, given the response r the GET receives
checkGenerateLLMsTextStatus(r) ==
    LET response == getRequest(r).value IN
    \* response is undefined: reading response.status throws inside the try
    IF response.status = NoResponse THEN checkGenerateLLMsTextStatusCatch(TypeError)
    ELSE IF response.status = 200 THEN Return(response.data)
    ELSE IF response.status = 404
    THEN checkGenerateLLMsTextStatusCatch(
             CodecrawlError(<<"LLMs.txt generation job not found">>, 404, FALSE))
    ELSE checkGenerateLLMsTextStatusCatch(
             handleError(response, <<"check LLMs.txt generation status">>))

(***************************************************************************)
(* CodecrawlApp: construction and request headers.  An optional string is  *)
(* a record that says whether it is a string at all and holds its text.    *)
(***************************************************************************)
Null == [isString |-> FALSE, text |-> <<>>]
Str(t) == [isString |-> TRUE, text |-> t]
\* the truthiness of an optional string: a string that is not empty
Truthy(v) == v.isString /\ v.text # <<>>

CloudHost == "api.irere.dev"
\* the urls tried: the cloud, a self-hosted instance, and a self-hosted
\* proxy whose path holds the cloud's name; a url is scheme, host and path
ApiUrls ==
    {<<"https://", CloudHost>>,
     <<"http://", "localhost:3002">>,
     <<"https://", "proxy.local", "/", CloudHost>>}
ApiKeys == {<<"fc-key">>}
CodecrawlAppConfig ==
    [apiKey : {Null, Str(<<>>)} \cup {Str(k) : k \in ApiKeys},
     apiUrl : {Null, Str(<<>>)} \cup {Str(u) : u \in ApiUrls}]

\* isCloudService: url.includes('api.irere.dev')
isCloudService(url) == Contains(url, <<CloudHost>>)

\* const baseUrl = apiUrl || 'https://api.irere.dev'
baseUrl(cfg) == IF Truthy(cfg.apiUrl) THEN cfg.apiUrl.text ELSE <<"https://", CloudHost>>

NoClient == [exists |-> FALSE, apiKey |-> <<>>, apiUrl |-> <<>>]

\* the constructor: the failure it throws, or the fields it sets
CodecrawlApp(cfg) ==
    IF isCloudService(baseUrl(cfg)) /\ ~cfg.apiKey.isString
    THEN [thrown |-> CodecrawlError(<<"No API key provided">>, 401, FALSE), this |-> NoClient]
    ELSE [thrown |-> NoOutcome,
          this |-> [exists |-> TRUE,
                    apiKey |-> IF Truthy(cfg.apiKey) THEN cfg.apiKey.text ELSE <<>>,
                    apiUrl |-> baseUrl(cfg)]]

\* prepareHeaders() of instance this, called without an idempotency key
prepareHeaders(this) ==
    [ContentType |-> <<"application/json">>,
     Authorization |-> <<"Bearer ">> \o this.apiKey]

(***************************************************************************)
(* CodecrawlApp.generateLLMsTxt, one action per stretch between two awaits. *)
(***************************************************************************)
Post == [ev |-> "POST", id |-> None]
Get(id) == [ev |-> "GET", id |-> id]
Delay == [ev |-> "DELAY", id |-> None]

\* the positions of the status requests in the log
GetIndexes == {i \in 1..Len(log) : log[i].ev = "GET"}
NumPolls == Cardinality(GetIndexes)
NumSubmits == Cardinality({i \in 1..Len(log) : log[i].ev = "POST"})
NumDelays == Cardinality({i \in 1..Len(log) : log[i].ev = "DELAY"})

\* the catch block of generateLLMsTxt: whatever was thrown is thrown again
\* as a CodecrawlError with status code 500
generateLLMsTxtCatch(error) ==
    CodecrawlError(error.message, 500,
                   error.hasResponse /\ error.response.data.details)

\* AfterSubmit without the test for an error field in the submit response
AfterSubmit_NoErrorField(response) ==
    IF response.success
    THEN Return(ErrorResponse(<<"unknown error">>))
    ELSE IF response.id = None
    THEN generateLLMsTxtCatch(
             CodecrawlError(<<"Failed to start LLMs.txt generation. No job ID returned">>,
                            500, FALSE))
    ELSE [Return(response) EXCEPT !.kind = "poll"]

\* what generateLLMsTxt does with the value asyncGenerateLLMsText returned,
\* up to the first status request: "poll" stands for entering the loop
AfterSubmit(response) ==
    IF response.success \/ response.error # None
    THEN Return(ErrorResponse(IF response.error # None THEN response.error
                              ELSE <<"unknown error">>))
    ELSE IF response.id = None
    THEN generateLLMsTxtCatch(
             CodecrawlError(<<"Failed to start LLMs.txt generation. No job ID returned">>,
                            500, FALSE))
    ELSE [Return(response) EXCEPT !.kind = "poll"]

\* the loop without its break: a status that is not 'processing' is polled again
AfterPoll_NoBreak(generationStatus) ==
    IF generationStatus.error # None /\ ~generationStatus.success
    THEN Return(generationStatus)
    ELSE IF generationStatus.status = <<"completed">>
    THEN Return(generationStatus)
    ELSE IF generationStatus.status = <<"failed">>
    THEN generateLLMsTxtCatch(
             CodecrawlError(<<"LLMs.txt generation failed.">>, NoStatusCode, FALSE))
    ELSE [Return(generationStatus) EXCEPT !.kind = "delay"]

\* the loop without its test for 'completed': only a failure ends it
AfterPoll_IgnoresCompleted(generationStatus) ==
    IF generationStatus.error # None /\ ~generationStatus.success
    THEN Return(generationStatus)
    ELSE IF generationStatus.status = <<"failed">>
    THEN generateLLMsTxtCatch(
             CodecrawlError(<<"LLMs.txt generation failed.">>, NoStatusCode, FALSE))
    ELSE IF generationStatus.status \notin {<<"processing">>, <<"completed">>}
    THEN Return(ErrorResponse(<<"LLMs.txt generation ended with unexpected status: ">>))
    ELSE [Return(generationStatus) EXCEPT !.kind = "delay"]

\* one turn of the while loop on the snapshot checkGenerateLLMsTextStatus
\* returned: "delay" stands for reaching the setTimeout
AfterPoll(generationStatus) ==
    IF generationStatus.error # None /\ ~generationStatus.success
    THEN Return(generationStatus)
    ELSE IF generationStatus.status = <<"completed">>
    THEN Return(generationStatus)
    ELSE IF generationStatus.status = <<"failed">>
    THEN generateLLMsTxtCatch(
             CodecrawlError(
                 <<"LLMs.txt generation failed. Status code: ">> \o generationStatus.status
                     \o <<". Error: ">>
                     \o (IF generationStatus.error # None THEN generationStatus.error
                         ELSE <<"undefined">>),
                 NoStatusCode, FALSE))
    ELSE IF generationStatus.status # <<"processing">>
    THEN Return(ErrorResponse(
             <<"LLMs.txt generation ended with unexpected status: ">>
                 \o (IF generationStatus.status # None THEN generationStatus.status
                     ELSE <<"unknown">>)))
    ELSE [Return(generationStatus) EXCEPT !.kind = "delay"]

(***************************************************************************)
(* calculateOutputMetrics.  A content is modelled by its length and a      *)
(* slice of it by the half-open range of positions [start, end) it covers. *)
(***************************************************************************)
CHUNK_SIZE == 1000
MIN_CONTENT_LENGTH_FOR_PARALLEL == 1000000

Encodings == {"o200k_base", "cl100k_base"}
Paths == {None, <<"out.xml">>}

\* the content lengths calculateOutputMetrics is called with: short ones and
\* the ones around the threshold
Lengths ==
    (0..MaxSmall) \cup
    {MIN_CONTENT_LENGTH_FOR_PARALLEL - 1, MIN_CONTENT_LENGTH_FOR_PARALLEL,
     MIN_CONTENT_LENGTH_FOR_PARALLEL + 1}

Min(a, b) == IF a <= b THEN a ELSE b
\* Math.ceil(a / b) for a >= 0, b > 0
Ceil(a, b) == (a + b - 1) \div b

\* content.slice(from, to) of a content of length len
Slice(len, from, to) == [start |-> Min(from, len), end |-> Min(to, len)]
SliceLength(f) == f.end - f.start

OutputMetricsTask(c, e, p) == [content |-> c, encoding |-> e, path |-> p]

\* chunkSize with Math.floor in place of Math.ceil
chunkSize_Floor(len) == len \div CHUNK_SIZE

\* const chunkSize = Math.ceil(content.length / CHUNK_SIZE)
chunkSize(len) == Ceil(len, CHUNK_SIZE)

\* the splitting loop with slices one character short: slice(i, i + chunkSize - 1)
Chunks_ShortSlices(len) ==
    LET n == Ceil(len, chunkSize(len))
    IN  [k \in 1..n |->
            Slice(len, (k - 1) * chunkSize(len), (k - 1) * chunkSize(len) + chunkSize(len) - 1)]

\* the chunks the splitting loop pushes, in order: one for every
\* i = 0, chunkSize, 2 * chunkSize, ... below content.length
Chunks(len) ==
    LET n == Ceil(len, chunkSize(len))
    IN  [k \in 1..n |->
            Slice(len, (k - 1) * chunkSize(len), (k - 1) * chunkSize(len) + chunkSize(len))]

\* the content lengths the splitting loop is tried on: the ones up to
\* MaxExcess above the threshold, the ones around the next multiples of
\* CHUNK_SIZE, and the ones around twice and three times the threshold
SplitLengths ==
    {MIN_CONTENT_LENGTH_FOR_PARALLEL + d : d \in 0..MaxExcess}
    \cup {MIN_CONTENT_LENGTH_FOR_PARALLEL + CHUNK_SIZE * j + d : j \in 1..3, d \in -1..1}
    \cup {m * MIN_CONTENT_LENGTH_FOR_PARALLEL + d : m \in 2..3, d \in -1..1}

\* shouldRunInParallel with >= in place of >
shouldRunInParallel_AtThreshold(len) == len >= MIN_CONTENT_LENGTH_FOR_PARALLEL

shouldRunInParallel(len) == len > MIN_CONTENT_LENGTH_FOR_PARALLEL
\* numOfTasks when the pool is sized for the chunks whatever the length
numOfTasks_AlwaysChunks(len) == CHUNK_SIZE

numOfTasks(len) == IF shouldRunInParallel(len) THEN CHUNK_SIZE ELSE 1

\* the tasks with the chunks labelled from 1: `${path}-chunk-${index + 1}`
TasksOf_OneBased(len, e, p) ==
    IF shouldRunInParallel(len)
    THEN LET pushed == Chunks(len) IN
         [k \in 1..Len(pushed) |->
             OutputMetricsTask(pushed[k], e,
                 IF p # None THEN p \o <<"-chunk-", ToString(k)>> ELSE None)]
    ELSE <<OutputMetricsTask(Slice(len, 0, len), e, p)>>

\* the tasks calculateOutputMetrics hands to runTask, in order
TasksOf(len, e, p) ==
    IF shouldRunInParallel(len)
    THEN LET pushed == Chunks(len) IN
         [k \in 1..Len(pushed) |->
             OutputMetricsTask(pushed[k], e,
                 IF p # None THEN p \o <<"-chunk-", ToString(k - 1)>> ELSE None)]
    ELSE <<OutputMetricsTask(Slice(len, 0, len), e, p)>>

\* the tokenizer, a deterministic function of encoding and text: a stand-in
\* that gives one token to every CharsPerToken characters
CharsPerToken(e) == IF e = "o200k_base" THEN 5 ELSE 4
Encode(e, f) == Ceil(SliceLength(f), CharsPerToken(e))

\* no text of the content makes the tokenizer fail
NoBad == -1
\* the positions tried for such a text in a content of length len
BadPositions(len) == {NoBad} \cup (IF len > 0 THEN {len \div 2} ELSE {})
\* encode(content) succeeds on fragment f when the failing text sits at b
Encodable(f, b) == ~(f.start <= b /\ b < f.end)

MReturn(v) == [kind |-> "return", value |-> v]
MThrow == [kind |-> "throw", value |-> 0]
MNone == [kind |-> "none", value |-> 0]

\* countTokens without its try/catch: the tokenizer's failure escapes
countTokens_NoCatch(e, f, b) ==
    IF Encodable(f, b) THEN MReturn(Encode(e, f)) ELSE MThrow

\* TokenCounter.countTokens of a counter constructed for encoding e, on
\* fragment f: the catch block logs a warning and returns 0
countTokens(e, f, b) ==
    IF Encodable(f, b) THEN MReturn(Encode(e, f)) ELSE MReturn(0)

\* let tokenCounter: TokenCounter | null = null
NoCounter == "null"

\* getTokenCounter(encoding): the worker's singleton tc (NoCounter, or the
\* encoding its counter was constructed for) after the call; the counter is
\* constructed only when there is none
getTokenCounter(tc, e) == IF tc = NoCounter THEN e ELSE tc

\* the worker's task function, in a worker whose singleton is tc
outputMetricsWorker(tc, task, b) ==
    countTokens(getTokenCounter(tc, task.encoding), task.content, b)

\* the handler of the exit event run when no counter exists all the same
exitHandler_Unguarded(tc, instance, frees) ==
    [tokenCounter |-> NoCounter, freed |-> Append(frees, instance)]

\* process.on('exit'): a counter that exists is freed and the singleton is
\* cleared; instance is the counter the singleton holds, frees the instances
\* freed so far
exitHandler(tc, instance, frees) ==
    IF tc # NoCounter
    THEN [tokenCounter |-> NoCounter, freed |-> Append(frees, instance)]
    ELSE [tokenCounter |-> tc, freed |-> frees]

\* the workers of the pool
Workers == {"w1", "w2"}
\* a fragment the two encodings count differently
Fragments == {Slice(5, 0, 5)}
\* the tasks a worker is given, and where the tokenizer fails on each
WorkerTasks == {OutputMetricsTask(f, e, None) : f \in Fragments, e \in Encodings}
WorkerBads == {NoBad, 0}

Pending == [state |-> "pending", value |-> 0, reason |-> None]
Fulfilled(v) == [state |-> "fulfilled", value |-> v, reason |-> None]
Rejected(reason) == [state |-> "rejected", value |-> 0, reason |-> reason]
\* the promise pool.run gives for a task function that ended with outcome r
PromiseOf(r) ==
    IF r.kind = "return" THEN Fulfilled(r.value) ELSE Rejected(<<"task function threw">>)
\* the pool lost the worker that ran the task
WorkerFailure == <<"worker failed">>

RECURSIVE SumRange(_, _, _)
\* the sum of the values of results[lo..hi], halving the range to keep the
\* evaluation shallow
SumRange(results, lo, hi) ==
    IF lo > hi THEN 0
    ELSE IF lo = hi THEN results[lo].value
    ELSE LET mid == (lo + hi) \div 2
         IN  SumRange(results, lo, mid) + SumRange(results, mid + 1, hi)

\* chunkResults.reduce((sum, count) => sum + count, 0)
Sum(results) == SumRange(results, 1, Len(results))

\* the file records calculateMetrics is tried on
FilePaths == {<<"a.ts">>, <<"b.ts">>}
FileLengths == {0, 5}
ProcessedFile == [path : FilePaths, content : FileLengths]
FileLists == UNION {[1..n -> ProcessedFile] : n \in 0..MaxFiles}

\* calculateAllFileMetrics when it resolves: one record per file, in order,
\* with the file's path, the length of its content and its token count
calculateAllFileMetrics(files, e) ==
    [i \in 1..Len(files) |->
        [path |-> files[i].path,
         charCount |-> files[i].content,
         tokenCount |-> Encode(e, Slice(files[i].content, 0, files[i].content))]]

\* calculateOutputMetrics when it resolves, for an output no longer than the
\* threshold: the count its one task gives on the whole output
OutputTokens(out, e) ==
    outputMetricsWorker(NoCounter, OutputMetricsTask(Slice(out, 0, out), e, None), NoBad).value

\* the object the loop of lines 43-48 fills: one key per path met, holding
\* the field of the last record with that path
RecordOf(metrics, field) ==
    [p \in {metrics[i].path : i \in 1..Len(metrics)} |->
        LET last == CHOOSE i \in 1..Len(metrics) :
                        /\ metrics[i].path = p
                        /\ \A j \in (i + 1)..Len(metrics) : metrics[j].path # p
        IN  metrics[last][field]]

\* the report with totalFiles taken from the number of keys of fileCharCounts
CalculateMetricsResult_CountsKeys(files, out, metrics, tokens) ==
    [totalFiles |-> Cardinality({metrics[i].path : i \in 1..Len(metrics)}),
     totalCharacters |-> out,
     totalTokens |-> tokens,
     fileCharCounts |-> RecordOf(metrics, "charCount"),
     fileTokenCounts |-> RecordOf(metrics, "tokenCount")]

\* lines 40-56: the report built from the two awaited values
CalculateMetricsResult(files, out, metrics, tokens) ==
    [totalFiles |-> Len(files),
     totalCharacters |-> out,
     totalTokens |-> tokens,
     fileCharCounts |-> RecordOf(metrics, "charCount"),
     fileTokenCounts |-> RecordOf(metrics, "tokenCount")]

\* an await that takes a rejected promise for an empty value, as
\* Promise.allSettled would allow
awaitAll_Settled(files, out, fm, tt) ==
    IF fm.state = "pending" \/ tt.state = "pending" THEN MNone
    ELSE MReturn(CalculateMetricsResult(files, out,
                    IF fm.state = "fulfilled" THEN fm.value ELSE <<>>,
                    IF tt.state = "fulfilled" THEN tt.value ELSE 0))

\* await Promise.all([...]) of lines 27-38 and what follows it, given the
\* two promises fm and tt: a rejection rejects calculateMetrics, two
\* fulfilments let it build and return the report, and it waits otherwise
awaitAll(files, out, fm, tt) ==
    IF fm.state = "rejected" \/ tt.state = "rejected" THEN MThrow
    ELSE IF fm.state = "fulfilled" /\ tt.state = "fulfilled"
    THEN MReturn(CalculateMetricsResult(files, out, fm.value, tt.value))
    ELSE MNone

Init ==
    /\ pc = "idle"
    /\ log = <<>>
    /\ submitResp = Response(NoResponse, EmptyBody)
    /\ submitted = NoOutcome
    /\ pollResps = <<>>
    /\ polled = NoOutcome
    /\ jobId = None
    /\ outcome = NoOutcome
    /\ mpc = "idle"
    /\ content = 0
    /\ encoding = ""
    /\ path = None
    /\ poolInits = <<>>
    /\ tasks = <<>>
    /\ drained = 0
    /\ settled = <<>>
    /\ mresult = MNone
    /\ badAt = NoBad
    /\ splitLen = 0
    /\ chunks = <<>>
    /\ tokenCounter = [w \in Workers |-> NoCounter]
    /\ created = [w \in Workers |-> 0]
    /\ freed = [w \in Workers |-> <<>>]
    /\ exited = [w \in Workers |-> FALSE]
    /\ runs = <<>>
    /\ cpc = "idle"
    /\ processedFiles = <<>>
    /\ output = 0
    /\ tokenEncoding = "o200k_base"
    /\ progress = <<>>
    /\ fileMetricsP = Pending
    /\ totalTokensP = Pending
    /\ report = MNone
    /\ config = [apiKey |-> Null, apiUrl |-> Null]
    /\ constructed = <<"no">>
    /\ client = NoClient
    /\ requests = <<>>

\* generateLLMsTxt is called: asyncGenerateLLMsText sends the POST
Call ==
    /\ pc = "idle"
    /\ log' = Append(log, Post)
    /\ pc' = "awaitSubmit"
    /\ UNCHANGED <<submitResp, submitted, pollResps, polled, jobId, outcome, metricsVars, splitVars, workerVars, calcVars, appVars>>

\* the POST is answered: lines 260-280, up to the first GET
SubmitAnswered(r) ==
    /\ pc = "awaitSubmit"
    /\ submitResp' = r
    /\ submitted' = asyncGenerateLLMsText(r)
    /\ LET next == IF submitted'.kind = "throw" THEN generateLLMsTxtCatch(submitted')
                   ELSE AfterSubmit(submitted'.value)
       IN  IF next.kind = "poll"
           THEN /\ jobId' = next.value.id
                /\ log' = Append(log, Get(jobId'))
                /\ pc' = "awaitPoll"
                /\ UNCHANGED outcome
           ELSE /\ outcome' = next
                /\ pc' = "done"
                /\ UNCHANGED <<jobId, log>>
    /\ UNCHANGED <<pollResps, polled, metricsVars, splitVars, workerVars, calcVars, appVars>>

\* a GET is answered: lines 280-301, one turn of the loop up to its setTimeout
PollAnswered(r) ==
    /\ pc = "awaitPoll"
    /\ pollResps' = Append(pollResps, r)
    /\ polled' = checkGenerateLLMsTextStatus(r)
    /\ LET next == IF polled'.kind = "throw" THEN generateLLMsTxtCatch(polled')
                   ELSE AfterPoll(polled'.value)
       IN  IF next.kind = "delay"
           THEN /\ log' = Append(log, Delay)
                /\ pc' = "sleeping"
                /\ UNCHANGED outcome
           ELSE /\ outcome' = next
                /\ pc' = "done"
                /\ UNCHANGED log
    /\ UNCHANGED <<submitResp, submitted, jobId, metricsVars, splitVars, workerVars, calcVars, appVars>>

\* the 2 second timer fires: the loop sends the next GET
TimerFires ==
    /\ pc = "sleeping"
    /\ NumPolls < MaxPolls
    /\ log' = Append(log, Get(jobId))
    /\ pc' = "awaitPoll"
    /\ UNCHANGED <<submitResp, submitted, pollResps, polled, jobId, outcome, metricsVars, splitVars, workerVars, calcVars, appVars>>

\* calculateOutputMetrics is called: lines 26-28 and the submissions of
\* lines 36-54 or of line 60, up to the await; the content has length len and
\* the tokenizer fails on its text at b
calculateOutputMetrics(len, e, p, b) ==
    /\ mpc = "idle"
    /\ content' = len
    /\ encoding' = e
    /\ path' = p
    /\ badAt' = b
    /\ poolInits' = Append(poolInits, numOfTasks(len))
    /\ tasks' = TasksOf(len, e, p)
    /\ settled' = [k \in 1..Len(tasks') |-> Pending]
    /\ drained' = 0
    /\ mpc' = "awaitTasks"
    /\ UNCHANGED <<mresult, clientVars, splitVars, workerVars, calcVars, appVars>>

\* the tasks a pool worker may settle next: the pending ones at most MaxLag
\* places after the oldest pending one
Runnable ==
    {k \in (drained + 1)..Min(drained + 1 + MaxLag, Len(tasks)) : settled[k].state = "pending"}

\* the number of leading tasks of s that are settled, counted on from d
RECURSIVE Drained(_, _)
Drained(s, d) ==
    IF d < Len(s) /\ s[d + 1].state # "pending" THEN Drained(s, d + 1) ELSE d

\* the continuation of the await once every awaited promise is fulfilled:
\* lines 57-67
calculateOutputMetricsReturns(results) ==
    MReturn(IF shouldRunInParallel(content) THEN Sum(results)
            ELSE results[1].value)

\* the await resumed by the first promise to settle, as Promise.race would do
Settles_Race(k, promise) ==
    /\ settled' = [settled EXCEPT ![k] = promise]
    /\ drained' = Drained(settled', drained)
    /\ mresult' = (IF promise.state = "rejected" THEN MThrow
                   ELSE calculateOutputMetricsReturns(settled'))
    /\ mpc' = "done"

\* the promise of task k settles as promise: a rejection rejects the await
\* at once and the catch block of lines 68-71 throws the error again; the
\* fulfilment of the last awaited promise resumes calculateOutputMetrics in
\* the same turn
Settles(k, promise) ==
    /\ settled' = [settled EXCEPT ![k] = promise]
    /\ drained' = Drained(settled', drained)
    /\ IF promise.state = "rejected"
       THEN mresult' = MThrow /\ mpc' = "done"
       ELSE IF drained' = Len(tasks)
       THEN mresult' = calculateOutputMetricsReturns(settled') /\ mpc' = "done"
       ELSE UNCHANGED <<mresult, mpc>>

\* a rejection taken for a count of 0 while the await goes on, as
\* Promise.allSettled would allow
TaskRejects_Swallow(k) ==
    /\ mpc = "awaitTasks"
    /\ k \in Runnable
    /\ settled' = [settled EXCEPT ![k] = Rejected(WorkerFailure)]
    /\ drained' = Drained(settled', drained)
    /\ IF drained' = Len(tasks)
       THEN mresult' = calculateOutputMetricsReturns(settled') /\ mpc' = "done"
       ELSE UNCHANGED <<mresult, mpc>>
    /\ UNCHANGED <<content, encoding, path, badAt, poolInits, tasks, clientVars, splitVars, workerVars, calcVars, appVars>>

\* a worker runs the task function on task k to its end; the workers of the
\* call hold no counter yet or the one an earlier task of the call made
TaskFulfils(k) ==
    /\ mpc = "awaitTasks"
    /\ k \in Runnable
    /\ Settles(k, PromiseOf(outputMetricsWorker(NoCounter, tasks[k], badAt)))
    /\ UNCHANGED <<content, encoding, path, badAt, poolInits, tasks, clientVars, splitVars, workerVars, calcVars, appVars>>

\* the worker running task k fails: the awaited promise rejects
TaskRejects(k) ==
    /\ mpc = "awaitTasks"
    /\ k \in Runnable
    /\ Settles(k, Rejected(WorkerFailure))
    /\ UNCHANGED <<content, encoding, path, badAt, poolInits, tasks, clientVars, splitVars, workerVars, calcVars, appVars>>

\* the splitting loop of lines 38-43, run on a content of length len that
\* takes the parallel path
SplitContent(len) ==
    /\ shouldRunInParallel(len)
    /\ splitLen' = len
    /\ chunks' = Chunks(len)
    /\ UNCHANGED <<clientVars, metricsVars, workerVars, calcVars, appVars>>

SplitNext == \E len \in SplitLengths : SplitContent(len)

SplitSpec == Init /\ [][SplitNext]_vars

\* worker w runs the task function on task (lines 22-37); the tokenizer fails
\* on the task's content when b is a position of it
WorkerRuns(w, task, b) ==
    /\ ~exited[w]
    /\ Len(runs) < MaxRuns
    /\ tokenCounter' = [tokenCounter EXCEPT ![w] = getTokenCounter(@, task.encoding)]
    /\ created' = [created EXCEPT ![w] = IF tokenCounter[w] = NoCounter THEN @ + 1 ELSE @]
    /\ runs' = Append(runs,
            [worker |-> w, task |-> task, bad |-> b,
             counter |-> tokenCounter'[w],
             instance |-> created'[w],
             live |-> \A i \in 1..Len(freed[w]) : freed[w][i] # created'[w],
             result |-> outputMetricsWorker(tokenCounter[w], task, b)])
    /\ UNCHANGED <<freed, exited, clientVars, metricsVars, splitVars, calcVars, appVars>>

\* worker w is torn down: its exit event fires and the handler of lines
\* 40-45 runs; the worker runs nothing afterwards
WorkerExits(w) ==
    /\ ~exited[w]
    /\ LET after == exitHandler(tokenCounter[w], created[w], freed[w])
       IN  /\ tokenCounter' = [tokenCounter EXCEPT ![w] = after.tokenCounter]
           /\ freed' = [freed EXCEPT ![w] = after.freed]
    /\ exited' = [exited EXCEPT ![w] = TRUE]
    /\ UNCHANGED <<created, runs, clientVars, metricsVars, splitVars, calcVars, appVars>>

WorkerNext ==
    \/ \E w \in Workers, task \in WorkerTasks, b \in WorkerBads : WorkerRuns(w, task, b)
    \/ \E w \in Workers : WorkerExits(w)

WorkerSpec == Init /\ [][WorkerNext]_vars

\* calculateMetrics is called (lines 25-38): it reports its progress and
\* launches the two computations, then awaits both
calculateMetrics(files, out, e) ==
    /\ cpc = "idle"
    /\ processedFiles' = files
    /\ output' = out
    /\ tokenEncoding' = e
    /\ progress' = Append(progress, "Calculating metrics...")
    /\ fileMetricsP' = Pending
    /\ totalTokensP' = Pending
    /\ cpc' = "awaiting"
    /\ UNCHANGED <<report, clientVars, metricsVars, splitVars, workerVars, appVars>>

\* calculateMetrics goes on from its await in the turn a promise settles
Resumes ==
    /\ report' = awaitAll(processedFiles, output, fileMetricsP', totalTokensP')
    /\ cpc' = IF report'.kind = "none" THEN "awaiting" ELSE "done"

\* the per-file computation resolves
FileMetricsResolves ==
    /\ cpc # "idle"
    /\ fileMetricsP.state = "pending"
    /\ fileMetricsP' = Fulfilled(calculateAllFileMetrics(processedFiles, tokenEncoding))
    /\ UNCHANGED <<processedFiles, output, tokenEncoding, progress, totalTokensP,
                   clientVars, metricsVars, splitVars, workerVars, appVars>>
    /\ Resumes

\* the per-file computation rejects
FileMetricsRejects ==
    /\ cpc # "idle"
    /\ fileMetricsP.state = "pending"
    /\ fileMetricsP' = Rejected(WorkerFailure)
    /\ UNCHANGED <<processedFiles, output, tokenEncoding, progress, totalTokensP,
                   clientVars, metricsVars, splitVars, workerVars, appVars>>
    /\ Resumes

\* the output-level count resolves
OutputMetricsResolves ==
    /\ cpc # "idle"
    /\ totalTokensP.state = "pending"
    /\ totalTokensP' = Fulfilled(OutputTokens(output, tokenEncoding))
    /\ UNCHANGED <<processedFiles, output, tokenEncoding, progress, fileMetricsP,
                   clientVars, metricsVars, splitVars, workerVars, appVars>>
    /\ Resumes

\* the output-level count rejects
OutputMetricsRejects ==
    /\ cpc # "idle"
    /\ totalTokensP.state = "pending"
    /\ totalTokensP' = Rejected(WorkerFailure)
    /\ UNCHANGED <<processedFiles, output, tokenEncoding, progress, fileMetricsP,
                   clientVars, metricsVars, splitVars, workerVars, appVars>>
    /\ Resumes

CalcNext ==
    \/ \E files \in FileLists, out \in 0..MaxSmall, e \in Encodings :
          calculateMetrics(files, out, e)
    \/ FileMetricsResolves
    \/ FileMetricsRejects
    \/ OutputMetricsResolves
    \/ OutputMetricsRejects

CalcSpec == Init /\ [][CalcNext]_vars

\* new CodecrawlApp(cfg): lines 140-149
New(cfg) ==
    /\ constructed = <<"no">>
    /\ config' = cfg
    /\ LET made == CodecrawlApp(cfg)
       IN  /\ client' = made.this
           /\ constructed' = IF made.this.exists THEN <<"yes">>
                             ELSE <<"thrown", ToString(made.thrown.statusCode)>>
    /\ UNCHANGED <<requests, clientVars, metricsVars, splitVars, workerVars, calcVars>>

\* asyncGenerateLLMsText on the instance, up to its await: the POST is sent
\* with the headers of prepareHeaders (lines 326-333)
SendsSubmit ==
    /\ client.exists
    /\ Len(requests) < MaxRequests
    /\ requests' = Append(requests,
            [method |-> "POST",
             url |-> client.apiUrl \o <<"/v1/llmstxt">>,
             headers |-> prepareHeaders(client)])
    /\ UNCHANGED <<config, constructed, client,
                   clientVars, metricsVars, splitVars, workerVars, calcVars>>

\* checkGenerateLLMsTextStatus(id) on the instance, up to its await: the GET
\* is sent with the headers of prepareHeaders (lines 365-370)
SendsStatus(id) ==
    /\ client.exists
    /\ Len(requests) < MaxRequests
    /\ requests' = Append(requests,
            [method |-> "GET",
             url |-> client.apiUrl \o <<"/v1/llmstxt/">> \o id,
             headers |-> prepareHeaders(client)])
    /\ UNCHANGED <<config, constructed, client,
                   clientVars, metricsVars, splitVars, workerVars, calcVars>>

AppNext ==
    \/ \E cfg \in CodecrawlAppConfig : New(cfg)
    \/ SendsSubmit
    \/ \E id \in JobIds : SendsStatus(id)

AppSpec == Init /\ [][AppNext]_vars

MetricsNext ==
    \/ \E len \in Lengths, e \in Encodings, p \in Paths :
          \E b \in BadPositions(len) : calculateOutputMetrics(len, e, p, b)
    \/ \E k \in Runnable : TaskFulfils(k)
    \/ \E k \in Runnable : TaskRejects(k)

MetricsSpec == Init /\ [][MetricsNext]_vars

Next ==
    \/ Call
    \/ \E r \in SubmitResponses : SubmitAnswered(r)
    \/ \E r \in StatusResponses : PollAnswered(r)
    \/ TimerFires

Spec == Init /\ [][Next]_vars

\* the run of generateLLMsTxt when every request is answered in the end and
\* the timer of line 301 fires
FairSpec ==
    /\ Spec
    /\ WF_vars(\E r \in SubmitResponses : SubmitAnswered(r))
    /\ WF_vars(\E r \in StatusResponses : PollAnswered(r))
    /\ WF_vars(TimerFires)

(***************************************************************************)
(* The claims.                                                             *)
(***************************************************************************)
SubmitIsAnswered == pc \notin {"idle", "awaitSubmit"}
LastPoll == pollResps[Len(pollResps)]
LastEvent == log[Len(log)]
IsProcessing(r) == r.status = 200 /\ r.data.status = <<"processing">>
IsCompleted(r) == r.status = 200 /\ r.data.status = <<"completed">>
\* a failure: an error thrown, or an ErrorResponse returned
IsFailure(o) ==
    \/ o.kind = "throw"
    \/ o.kind = "return" /\ ~o.value.success /\ o.value.error # None
\* the log is POST, GET, then DELAY and GET in turn
LogAlternates ==
    \A i \in 1..Len(log) :
        log[i].ev = (IF i = 1 THEN "POST" ELSE IF i % 2 = 0 THEN "GET" ELSE "DELAY")

\* C1: when the submit answers 200 {success: true, id: J} and the polls answer
\* 'processing' n times and then 'completed', generateLLMsTxt ends by
\* returning the completed snapshot, after exactly n+1 status requests for J
\* with one delay between every two of them.
C1_RunToCompletion ==
    ( /\ pc = "done"
      /\ submitResp.status = 200
      /\ submitResp.data.success
      /\ submitResp.data.id # None
      /\ submitResp.data.error = None
      /\ \A i \in 1..Len(pollResps) :
            IF i < Len(pollResps) THEN IsProcessing(pollResps[i])
            ELSE IsCompleted(pollResps[i]) )
    => /\ Len(pollResps) >= 1
       /\ outcome = Return(LastPoll.data)
       /\ NumPolls = Len(pollResps)
       /\ NumDelays = NumPolls - 1
       /\ LogAlternates
       /\ \A i \in GetIndexes : log[i].id = submitResp.data.id

\* C2: a poll that answers 200 with status 'failed' and error message E makes
\* generateLLMsTxt raise a failure whose message contains E, whatever the
\* other fields of the body are.
C2_FailedJobRaises ==
    ( /\ pc = "done"
      /\ Len(pollResps) > 0
      /\ LastPoll.status = 200
      /\ LastPoll.data.status = <<"failed">>
      /\ LastPoll.data.error # None )
    => /\ outcome.kind = "throw"
       /\ Contains(outcome.message, LastPoll.data.error)

\* C3: a poll that answers 404 makes generateLLMsTxt raise a failure whose
\* message says the generation job was not found, and that poll is the last
\* status request of the run.
C3_NotFoundStopsPolling ==
    \A i \in 1..Len(pollResps) :
        pollResps[i].status = 404
        => /\ i = Len(pollResps)
           /\ pc = "done"
           /\ outcome.kind = "throw"
           /\ Contains(outcome.message, <<"LLMs.txt generation job not found">>)
           /\ NumPolls = Len(pollResps)
           /\ LastEvent.ev = "GET"

\* a run that polled twice and ended on a 404
C3_Witness ==
    /\ pc = "done"
    /\ Len(pollResps) = 2
    /\ IsProcessing(pollResps[1])
    /\ pollResps[2].status = 404
    /\ outcome.kind = "throw"

\* C4: a poll that answers with a status outside processing, completed and
\* failed ends the loop at that poll, with no later request or delay, and
\* generateLLMsTxt ends with the 'unexpected status' failure naming the status.
C4_UnexpectedStatus ==
    ( /\ Len(pollResps) > 0
      /\ LastPoll.status = 200
      /\ LastPoll.data.status \in
             JobStatuses \ {<<"processing">>, <<"completed">>, <<"failed">>} )
    => /\ pc = "done"
       /\ NumPolls = Len(pollResps)
       /\ LastEvent.ev = "GET"
       /\ outcome = Return(ErrorResponse(
              <<"LLMs.txt generation ended with unexpected status: ">>
                  \o LastPoll.data.status))

\* C5: every run sends exactly one POST; when the POST is answered with a
\* status other than 200 or with a body carrying an error field, the run ends
\* at once in a failure, without any status request.
C5_OneSubmitNoPollOnFailure ==
    /\ NumSubmits = (IF pc = "idle" THEN 0 ELSE 1)
    /\ pc # "idle" => log[1].ev = "POST"
    /\ ( /\ SubmitIsAnswered
         /\ (submitResp.status # 200 \/ submitResp.data.error # None) )
       => /\ pc = "done"
          /\ NumPolls = 0
          /\ IsFailure(outcome)

\* a run whose submit answered 200 with a job id and an error field
C5_Witness ==
    /\ pc = "done"
    /\ submitResp.status = 200
    /\ submitResp.data.id # None
    /\ submitResp.data.error # None
    /\ ~submitResp.data.success
    /\ NumSubmits = 1
    /\ NumPolls = 0

\* C6: for every response whose HTTP status S is not 200,
\* checkGenerateLLMsTextStatus raises a CodecrawlError whose statusCode is S.
C6_PollStatusCode ==
    ( /\ Len(pollResps) > 0
      /\ LastPoll.status \notin {200, NoResponse} )
    => /\ polled.kind = "throw"
       /\ polled.class = "CodecrawlError"
       /\ polled.statusCode = LastPoll.status

\* C7: for every submit response whose HTTP status S is not 200,
\* asyncGenerateLLMsText raises a CodecrawlError whose statusCode is S and
\* whose message contains the error text of the body when it has one.
C7_SubmitStatusCode ==
    ( /\ SubmitIsAnswered
      /\ submitResp.status \notin {200, NoResponse} )
    => /\ submitted.kind = "throw"
       /\ submitted.class = "CodecrawlError"
       /\ submitted.statusCode = submitResp.status
       /\ submitResp.data.error # None
          => Contains(submitted.message, submitResp.data.error)

\* C8: as long as every status poll answers 'processing', generateLLMsTxt
\* does not terminate.
C8_NoDeadline ==
    ( /\ Len(pollResps) > 0
      /\ \A i \in 1..Len(pollResps) : IsProcessing(pollResps[i]) )
    => pc # "done"

\* C9: for a content shorter than the parallel threshold,
\* calculateOutputMetrics neither initializes the worker pool nor submits a
\* task to it.
C9_NoPoolBelowThreshold ==
    (mpc # "idle" /\ content < MIN_CONTENT_LENGTH_FOR_PARALLEL)
    => poolInits = <<>> /\ tasks = <<>>

\* C9 as amended: for a content shorter than the parallel threshold,
\* calculateOutputMetrics initializes the task runner once, for one task, and
\* hands it exactly one task, which holds the whole content.
C9_OneTaskBelowThreshold ==
    (mpc # "idle" /\ content < MIN_CONTENT_LENGTH_FOR_PARALLEL)
    => /\ poolInits = <<1>>
       /\ Len(tasks) = 1
       /\ tasks[1].content = [start |-> 0, end |-> content]

\* a call on a short content has returned the count of its one pool task
C9_Witness ==
    /\ mpc = "done"
    /\ content > 0
    /\ content < MIN_CONTENT_LENGTH_FOR_PARALLEL
    /\ settled[1].state = "fulfilled"
    /\ mresult.kind = "return"

\* the content is split: the tasks are not the one task of the whole content
IsSplit == tasks # <<OutputMetricsTask(Slice(content, 0, content), encoding, path)>>

\* C10: calculateOutputMetrics splits the content if and only if its length
\* exceeds the threshold; at or below the threshold exactly one task is run,
\* on the whole content with the caller's label, and its count is the value
\* returned.
C10_SplitIffAboveThreshold ==
    mpc # "idle"
    => /\ IsSplit <=> content > MIN_CONTENT_LENGTH_FOR_PARALLEL
       /\ content <= MIN_CONTENT_LENGTH_FOR_PARALLEL
          => /\ Len(tasks) = 1
             /\ tasks[1].content = [start |-> 0, end |-> content]
             /\ tasks[1].path = path
             /\ tasks[1].encoding = encoding
             /\ mpc = "done" /\ mresult.kind = "return"
                => mresult.value = settled[1].value

\* a call on a content of exactly the threshold length has returned its count
C10_Witness ==
    /\ mpc = "done"
    /\ content = MIN_CONTENT_LENGTH_FOR_PARALLEL
    /\ path # None
    /\ mresult.kind = "return"
    /\ mresult.value = Encode(encoding, [start |-> 0, end |-> content])

\* C11: for every content longer than the threshold the splitting loop
\* produces exactly CHUNK_SIZE chunks.
C11_ExactlyKChunks ==
    splitLen > MIN_CONTENT_LENGTH_FOR_PARALLEL => Len(chunks) = CHUNK_SIZE

\* a content whose length is not a multiple of CHUNK_SIZE has been split
C11_Witness ==
    /\ splitLen = MIN_CONTENT_LENGTH_FOR_PARALLEL + CHUNK_SIZE + 1
    /\ Len(chunks) > 0

\* C12: the chunks are contiguous, do not overlap and cover the content; all
\* but the last have length ceil(length / CHUNK_SIZE), and the last is not
\* empty and no longer than the others.
C12_ChunksCoverContent ==
    splitLen > MIN_CONTENT_LENGTH_FOR_PARALLEL
    => LET n == Len(chunks)
           size == Ceil(splitLen, CHUNK_SIZE)
       IN  /\ n >= 1
           /\ chunks[1].start = 0
           /\ chunks[n].end = splitLen
           /\ \A k \in 1..(n - 1) :
                 /\ chunks[k].end = chunks[k + 1].start
                 /\ SliceLength(chunks[k]) = size
           /\ SliceLength(chunks[n]) > 0
           /\ SliceLength(chunks[n]) <= size

\* a content has been split whose last chunk is shorter than the others
C12_Witness ==
    /\ splitLen > MIN_CONTENT_LENGTH_FOR_PARALLEL
    /\ Len(chunks) > 1
    /\ SliceLength(chunks[Len(chunks)]) < SliceLength(chunks[1])

\* the total of the counts in results, each result taken once: every count
\* times the number of results that hold it
RECURSIVE C13_Weighted(_, _)
C13_Weighted(results, values) ==
    IF values = {} THEN 0
    ELSE LET v == CHOOSE x \in values : TRUE
         IN  v * Cardinality({k \in DOMAIN results : results[k].value = v})
             + C13_Weighted(results, values \ {v})
C13_Total(results) ==
    C13_Weighted(results, {results[k].value : k \in DOMAIN results})

\* C13: on the parallel path calculateOutputMetrics returns only when every
\* chunk task has resolved, and returns the sum of the counts of all the
\* chunk tasks, each counted once, whatever the order of completion.
C13_ReturnsSumOfAllChunks ==
    (mpc = "done" /\ mresult.kind = "return" /\ content > MIN_CONTENT_LENGTH_FOR_PARALLEL)
    => /\ Len(settled) = CHUNK_SIZE
       /\ \A k \in 1..Len(settled) : settled[k].state = "fulfilled"
       /\ mresult.value = C13_Total(settled)

\* a call on the parallel path has returned a total to which the first and
\* the last chunk both contribute
C13_Witness ==
    /\ mpc = "done"
    /\ mresult.kind = "return"
    /\ content > MIN_CONTENT_LENGTH_FOR_PARALLEL
    /\ settled[1].value > 0
    /\ settled[Len(settled)].value > 0
    /\ mresult.value > settled[1].value + settled[Len(settled)].value

\* the promises that are not rejected
C14_Unrejected == [state : {"pending", "fulfilled"}, value : Nat, reason : {None}]

\* C14: when a chunk task rejects, calculateOutputMetrics rejects and returns
\* no count, and every chunk is submitted exactly once: the call submits one
\* task per chunk, at strictly increasing positions of the content, and the
\* tasks of a call never change afterwards.
C14_RejectionFailsTheCall ==
    [][ /\ (content' > MIN_CONTENT_LENGTH_FOR_PARALLEL
               /\ settled' \notin [DOMAIN settled' -> C14_Unrejected])
           => (mpc' = "done" /\ mresult' = MThrow)
        /\ (mpc = "idle" /\ mpc' # "idle" /\ content' > MIN_CONTENT_LENGTH_FOR_PARALLEL)
           => /\ Len(tasks') = CHUNK_SIZE
              /\ \A k \in 1..(Len(tasks') - 1) :
                    tasks'[k].content.start < tasks'[k + 1].content.start
        /\ mpc # "idle" => tasks' = tasks
      ]_vars

\* a chunk task has rejected after another one had succeeded
C14_Witness ==
    /\ mpc = "done"
    /\ content > MIN_CONTENT_LENGTH_FOR_PARALLEL
    /\ mresult = MThrow
    /\ \E k \in 1..3 : settled[k].state = "rejected"
    /\ \E k \in 1..3 : settled[k].state = "fulfilled" /\ settled[k].value > 0

\* the task of the fragment that holds the text the tokenizer fails on
C15_BadTask == IF shouldRunInParallel(content) THEN badAt \div chunkSize(content) + 1 ELSE 1
\* the promises of a task function that did not throw: pending, fulfilled
\* with a non-negative count, or rejected by a worker failure
C15_NoThrow ==
    [state : {"pending", "fulfilled"}, value : Nat, reason : {None}]
    \cup {Rejected(WorkerFailure)}

\* C15: countTokens never raises: a task whose fragment the tokenizer fails on
\* resolves with 0 and never rejects because its function threw, every count
\* is non-negative, and short of a worker failure the enclosing
\* calculateOutputMetrics call returns.
C15_UnencodableCountsZero ==
    mpc # "idle"
    => /\ settled \in [DOMAIN settled -> C15_NoThrow]
       /\ badAt # NoBad
          => /\ ~Encodable(tasks[C15_BadTask].content, badAt)
             /\ settled[C15_BadTask].state = "fulfilled"
                => settled[C15_BadTask].value = 0
       /\ (mpc = "done" /\ settled \in [DOMAIN settled -> C14_Unrejected])
          => mresult.kind = "return"

\* a call has returned although the tokenizer failed on its content, which
\* counted for 0
C15_Witness ==
    /\ mpc = "done"
    /\ mresult = MReturn(0)
    /\ content > 0
    /\ badAt # NoBad
    /\ ~Encodable(tasks[C15_BadTask].content, badAt)
    /\ settled[C15_BadTask] = Fulfilled(0)

\* C16: every run of the task function counts with a TokenCounter constructed
\* for the encoding its task asks for.
C16_CounterMatchesEncoding ==
    \A i \in 1..Len(runs) : runs[i].counter = runs[i].task.encoding

\* C17: two runs with the same fragment and the same requested encoding give
\* the same count, whichever workers run them and whatever they ran before.
C17_SameTaskSameCount ==
    \A i, j \in 1..Len(runs) :
        (/\ runs[i].task.content = runs[j].task.content
         /\ runs[i].task.encoding = runs[j].task.encoding
         /\ runs[i].bad = runs[j].bad)
        => runs[i].result = runs[j].result

\* C18: in every worker free() is called on no instance twice and only on
\* instances the worker constructed, never before the exit event, on every
\* constructed instance once the exit event has fired (so not at all when
\* none was constructed), and no run counts with a freed instance.
C18_FreedExactlyOnce ==
    /\ \A w \in Workers :
          /\ \A i, j \in 1..Len(freed[w]) : i # j => freed[w][i] # freed[w][j]
          /\ \A i \in 1..Len(freed[w]) : freed[w][i] \in 1..created[w]
          /\ ~exited[w] => freed[w] = <<>>
          /\ exited[w] => Len(freed[w]) = created[w] /\ tokenCounter[w] = NoCounter
    /\ \A i \in 1..Len(runs) : runs[i].live

\* a worker that counted was torn down and freed its counter, and another
\* worker was torn down without ever constructing one
C18_Witness ==
    \E w, v \in Workers :
        /\ exited[w] /\ created[w] = 1 /\ freed[w] = <<1>>
        /\ \E i \in 1..Len(runs) : runs[i].worker = w
        /\ exited[v] /\ created[v] = 0 /\ freed[v] = <<>>

\* the paths of the input file records
C19_InputPaths == {processedFiles[i].path : i \in 1..Len(processedFiles)}

\* C19: the report has totalCharacters equal to the length of the output,
\* totalFiles equal to the number of input file records, totalTokens equal to
\* the output-level count, and fileCharCounts and fileTokenCounts keyed by
\* exactly the paths of the input files.
C19_ReportFields ==
    report.kind = "return"
    => /\ report.value.totalCharacters = output
       /\ report.value.totalFiles = Len(processedFiles)
       /\ report.value.totalTokens = totalTokensP.value
       /\ DOMAIN report.value.fileCharCounts = C19_InputPaths
       /\ DOMAIN report.value.fileTokenCounts = C19_InputPaths

\* a report has been returned for two files that share their path and an
\* output that is not empty
C19_Witness ==
    /\ report.kind = "return"
    /\ Len(processedFiles) = 2
    /\ Cardinality(C19_InputPaths) = 1
    /\ output > 0
    /\ report.value.totalTokens > 0

\* C20: calculateMetrics launches both computations before awaiting, produces
\* a report only when both have resolved, and when either rejects it rejects
\* and produces no report.
C20_JoinsBoth ==
    /\ cpc = "awaiting"
       => /\ report.kind = "none"
          /\ fileMetricsP.state # "rejected" /\ totalTokensP.state # "rejected"
          /\ fileMetricsP.state = "pending" \/ totalTokensP.state = "pending"
    /\ report.kind = "return"
       => fileMetricsP.state = "fulfilled" /\ totalTokensP.state = "fulfilled"
    /\ (cpc # "idle" /\ (fileMetricsP.state = "rejected" \/ totalTokensP.state = "rejected"))
       => cpc = "done" /\ report.kind = "throw"

\* the output-level count rejected after the per-file computation had
\* resolved, and calculateMetrics rejected
C20_Witness ==
    /\ cpc = "done"
    /\ fileMetricsP.state = "fulfilled"
    /\ Len(processedFiles) > 0
    /\ totalTokensP.state = "rejected"
    /\ report.kind = "throw"

\* the host of the url the instance is to talk to is the cloud's
C21_TargetsCloud == baseUrl(config)[2] = CloudHost

\* C21: construction for the cloud host (given, or taken by default) without
\* a string apiKey fails with a 401 failure and leaves no instance;
\* construction for any other host succeeds, with or without a key; every
\* request of the instance carries Authorization: Bearer {apiKey}.
C21_CredentialForCloud ==
    constructed # <<"no">>
    => /\ (C21_TargetsCloud /\ ~config.apiKey.isString)
          => constructed = <<"thrown", "401">> /\ ~client.exists
       /\ ~C21_TargetsCloud => constructed = <<"yes">> /\ client.exists
       /\ \A i \in 1..Len(requests) :
             requests[i].headers.Authorization = <<"Bearer ">> \o config.apiKey.text

\* C22: a status request is followed by another one only when it was
\* answered HTTP 200 with status 'processing'; a poll answered otherwise is
\* the last request of the run, which ends there.
C22_TerminalIsAbsorbing ==
    \A i \in 1..Len(pollResps) :
        /\ i < NumPolls => IsProcessing(pollResps[i])
        /\ ~IsProcessing(pollResps[i])
           => /\ i = Len(pollResps)
              /\ NumPolls = i
              /\ pc = "done"
              /\ LastEvent.ev = "GET"

\* a run ended on its second poll, answered 'completed' after 'processing'
C22_Witness ==
    /\ pc = "done"
    /\ Len(pollResps) = 2
    /\ IsProcessing(pollResps[1])
    /\ IsCompleted(pollResps[2])
    /\ NumPolls = 2

\* generateLLMsTxt has ended, by returning a value or raising a CodecrawlError
C24_Terminated ==
    /\ pc = "done"
    /\ outcome.kind = "return" \/ outcome.class = "CodecrawlError"
\* every poll so far was answered 'processing'
C24_AllProcessing == \A i \in 1..Len(pollResps) : IsProcessing(pollResps[i])

\* C23: a call of calculateOutputMetrics on the parallel path with a label P
\* hands over, for the chunk at index i (from 0, in the order of the content),
\* a task labelled P-chunk-i, so the labels of the call are pairwise distinct;
\* every task of the call carries the encoding of the call.
C23_ChunkLabels ==
    [][(mpc = "idle" /\ mpc' # "idle" /\ shouldRunInParallel(content'))
        => /\ \A k \in DOMAIN tasks' :
                 /\ tasks'[k].encoding = encoding'
                 /\ tasks'[k].content.start = (k - 1) * chunkSize(content')
                 /\ path' # None =>
                        tasks'[k].path = path' \o <<"-chunk-", ToString(k - 1)>>
           /\ path' # None =>
                 Cardinality({tasks'[k].path : k \in DOMAIN tasks'}) = Len(tasks')]_vars

C23_Witness ==
    /\ mpc # "idle"
    /\ shouldRunInParallel(content)
    /\ path # None
    /\ Len(tasks) = CHUNK_SIZE
    /\ tasks[1].path = path \o <<"-chunk-", "0">>
    /\ tasks[CHUNK_SIZE].path = path \o <<"-chunk-", ToString(CHUNK_SIZE - 1)>>
    /\ tasks[CHUNK_SIZE].encoding = encoding

\* C24: when requests are answered and timers fire, a poll answered with
\* anything but HTTP 200 'processing' leads to the end of generateLLMsTxt, by
\* a returned value or a CodecrawlError; a run that has not ended has seen
\* 'processing' at every poll, and a run that never ends polls on for ever
\* (here: up to the last poll followed).
C24_EventuallyTerminates ==
    /\ (Len(pollResps) > 0 /\ ~IsProcessing(LastPoll)) ~> C24_Terminated
    /\ [](pc # "done" => C24_AllProcessing)
    /\ (pc # "idle") ~> (C24_Terminated
                          \/ (pc = "sleeping" /\ NumPolls = MaxPolls /\ C24_AllProcessing))

\* a run ended by a CodecrawlError at its second poll, which got no response
C24_Witness ==
    /\ pc = "done"
    /\ Len(pollResps) = 2
    /\ IsProcessing(pollResps[1])
    /\ pollResps[2].status = NoResponse
    /\ outcome.kind = "throw"
    /\ outcome.class = "CodecrawlError"

\* C25: every status request names the job id of the submit response of the
\* run; a submit response (HTTP 200, no error field) without a job id makes
\* generateLLMsTxt raise the 'No job ID returned' failure and send no status
\* request.
C25_PollsOwnJob ==
    /\ \A i \in GetIndexes : log[i].id # None /\ log[i].id = submitResp.data.id
    /\ (/\ SubmitIsAnswered
        /\ submitResp.status = 200
        /\ submitResp.data.error = None
        /\ submitResp.data.id = None)
       => /\ pc = "done"
          /\ NumPolls = 0
          /\ outcome.kind = "throw"
          /\ Contains(outcome.message,
                      <<"Failed to start LLMs.txt generation. No job ID returned">>)

====
